---- MODULE Spec2Model ----
(***************************************************************************)
(* The secure-print edge function (Supabase/Deno) of secure-pdf, as a      *)
(* state machine.  Every request runs the handler of `serve`; the handler  *)
(* is cut at its `await`s: one action is the completion of the awaited     *)
(* call (with its effect on the database) followed by the synchronous code *)
(* up to the next await.  Requests interleave at those points.             *)
(***************************************************************************)
EXTENDS Integers, Sequences, FiniteSets, TLC

\* ------------------------------------------------------------------ bounds
NumReqs == 2
NumRaceReqs == 3
NumGrants == 2
MaxPrints == 2
MaxClock == 1
MaxValueLen == 7
NumAssigns == 2
NumRenders == 1
NumBlocks == 2
NumSessions == 2
NumIps == 2
MaxQuota == 2

Grants == 1..NumGrants

\* A session token is a number: 0 is the absent/falsy token of a body without
\* session_token, g is the token stored in grant g's row, NumGrants + 1 is a
\* token no row holds.
NoToken == 0
UnknownToken == NumGrants + 1
Tokens == 0..UnknownToken

\* ------------------------------------------------------------- documents
\* The documents table: two rows, a PDF upload and an SVG upload whose
\* extension is upper case.  A grant whose document_id is 0 joins to no row.
NoDocument == 0
Documents == {1, 2}
storage_path(d) ==
  IF d = 1 THEN <<"a", ".", "p", "d", "f">> ELSE <<"b", ".", "S", "V", "G">>

ToLowerCaseChar(c) ==
  CASE c = "S" -> "s" [] c = "V" -> "v" [] c = "G" -> "g"
    [] c = "P" -> "p" [] c = "D" -> "d" [] c = "F" -> "f"
    [] c = "A" -> "a" [] c = "B" -> "b" [] OTHER -> c

toLowerCase(s) == [i \in 1..Len(s) |-> ToLowerCaseChar(s[i])]

endsWith(s, suffix) ==
  /\ Len(s) >= Len(suffix)
  /\ SubSeq(s, Len(s) - Len(suffix) + 1, Len(s)) = suffix

\* Lines 126-127.
isSvgCaseSensitive(d) == endsWith(storage_path(d), <<".", "s", "v", "g">>)

isSvg(d) == endsWith(toLowerCase(storage_path(d)), <<".", "s", "v", "g">>)

\* ----------------------------------------------------------------- bytes
\* Byte strings are named by how they were produced.
NoBytes == [kind |-> "none", doc |-> 0]
EmptyBytes == [kind |-> "empty", doc |-> 0]
FileBytes(d) == [kind |-> "file", doc |-> d]
ConvertedBytes(d) == [kind |-> "converted", doc |-> d]
EnhancedBytes(d) == [kind |-> "enhanced", doc |-> d]
byteLength(b) == IF b.kind \in {"none", "empty"} THEN 0 ELSE 1 + b.doc

\* Pages of a loaded PDF: document d has d pages; the normalizer delegate
\* answers with a one-page document.
PageCount(b) == IF b.kind = "converted" THEN 1 ELSE b.doc
getPages(b) == [i \in 1..PageCount(b) |-> [size |-> <<100 * i, 200>>, texts |-> <<>>]]

\* --------------------------------------------------------------- headers
corsHeaders ==
  [n \in {"Access-Control-Allow-Origin", "Access-Control-Allow-Headers"} |->
     IF n = "Access-Control-Allow-Origin" THEN "*"
     ELSE "authorization, x-client-info, apikey, content-type"]

JsonHeaders == corsHeaders @@ ("Content-Type" :> "application/json")

\* Line 246: newRemainingPrints.toString().
HeaderOfPrintsBeforeUpdate(n) == ToString(n + 1)

RemainingPrintsHeader(n) == ToString(n)

PdfHeaders(n) ==
  corsHeaders @@ ("Content-Type" :> "application/pdf")
              @@ ("Content-Disposition" :> "inline")
              @@ ("Cache-Control" :> "no-store, no-cache, must-revalidate, private")
              @@ ("Pragma" :> "no-cache")
              @@ ("Expires" :> "0")
              @@ ("X-Download-Options" :> "noopen")
              @@ ("X-Content-Type-Options" :> "nosniff")
              @@ ("X-Remaining-Prints" :> RemainingPrintsHeader(n))

\* ------------------------------------------------------------- responses
NoResponse == [status |-> 0]
PreflightResponse == [status |-> 200, headers |-> corsHeaders, body |-> [null |-> TRUE]]
ErrorResponse(st, msg) ==
  [status |-> st, headers |-> JsonHeaders, body |-> [error |-> msg]]
PrintLimitResponse ==
  [status |-> 403, headers |-> JsonHeaders,
   body |-> [error |-> "Print limit exceeded", remaining_prints |-> 0]]
PdfResponse(bytes, n) ==
  [status |-> 200, headers |-> PdfHeaders(n), body |-> [pdf |-> bytes]]

VARIABLES
  document_access,  \* the table: grant -> row
  print_logs,       \* the table: set of inserted rows
  initial_prints,   \* remaining_prints of every grant at the start
  now,              \* the clock new Date() reads
  enhanceUrl,       \* Deno.env PDF_ENHANCE_URL is set
  req,              \* per request: position in the handler and its locals
  normalizer,       \* the svg-to-pdf service: its upload and the page it adds
  DocumentAccess,   \* the admin backend: the access record of one (user, document)
  assign,           \* per assign-by-email request: its position and locals
  render,           \* per secure-render request: its position and locals
  Session,          \* the admin backend: the Session collection
  BlockedIp,        \* the admin backend: BlockedIp records per ip
  block,            \* per block-ip request: its position and locals
  convert,          \* per convert-to-cmyk request: its files, events and response
  cmykServer,       \* the CMYK server's process: running, or ended by an uncaught throw
  series            \* the generate-series request: its inputs and the PDF built

\* What the edge functions never touch, and what only the admin backend does.
assignVars == <<DocumentAccess, assign>>
blockVars == <<Session, BlockedIp, block>>
backendVars == <<assignVars, blockVars>>
toolVars == <<convert, cmykServer, series>>
otherProcesses == <<normalizer, backendVars, render, toolVars>>
printVars ==
  <<document_access, initial_prints, print_logs, now, enhanceUrl, req, render>>

vars == <<document_access, initial_prints, print_logs, now, enhanceUrl, req,
          normalizer, DocumentAccess, assign, render, Session, BlockedIp, block,
          convert, cmykServer, series>>

IdleReq ==
  [pc |-> "idle", method |-> "none", session_token |-> NoToken, queryTime |-> 0,
   access |-> 0, remaining_prints |-> 0, document |-> NoDocument,
   fileData |-> NoBytes, newRemainingPrints |-> 0, committed |-> -1,
   svgResponse |-> "none", enhance |-> "none", threw |-> FALSE,
   originalPdfBuffer |-> NoBytes, response |-> NoResponse]

\* The svg-to-pdf service before any upload reaches it.
NoUpload ==
  [pc |-> "idle", file |-> FALSE, svgText |-> <<>>, pageSize |-> <<>>, status |-> 0]

\* The admin backend with no access record and no request.
NoSessionToken == 0
NoAccess == [exists |-> FALSE, assignedQuota |-> 0, sessionToken |-> NoSessionToken]
BackendIdle ==
  /\ DocumentAccess = NoAccess
  /\ assign = <<>>
  /\ Session = {}
  /\ BlockedIp = <<>>
  /\ block = <<>>

\* The CMYK server and the series generator with no request.
NoPdf == [objects |-> <<>>, Kids |-> <<>>, Count |-> 0]
NoSeries ==
  [pc |-> "idle", templateBase64 |-> FALSE, startNumber |-> 0, endNumber |-> 0,
   pdf |-> NoPdf, status |-> 0]
ToolsIdle ==
  /\ convert = <<>>
  /\ cmykServer = "running"
  /\ series = NoSeries

\* The state before the first request: grant g expires at time g, the clock
\* stands at 0, and n requests are to come.
Start(n) ==
  /\ initial_prints = [g \in Grants |-> document_access[g].remaining_prints]
  /\ print_logs = {}
  /\ now = 0
  /\ req = [r \in 1..n |-> IdleReq]

Init ==
  /\ document_access \in
       {[g \in Grants |-> [remaining_prints |-> p[g], expires_at |-> g,
                           document_id |-> d[g]]] :
          p \in [Grants -> 0..MaxPrints],
          d \in [Grants -> {NoDocument} \cup Documents]}
  /\ enhanceUrl \in BOOLEAN
  /\ Start(NumReqs)
  /\ render = <<>>
  /\ normalizer = NoUpload
  /\ BackendIdle
  /\ ToolsIdle

\* More requests: grant 1 holds MaxPrints prints of the SVG document, the other
\* grants hold none.
InitRace ==
  /\ document_access =
       [g \in Grants |-> [remaining_prints |-> IF g = 1 THEN MaxPrints ELSE 0,
                          expires_at |-> g,
                          document_id |-> IF g = 1 THEN 2 ELSE NoDocument]]
  /\ enhanceUrl = TRUE
  /\ Start(NumRaceReqs)
  /\ render = <<>>
  /\ normalizer = NoUpload
  /\ BackendIdle
  /\ ToolsIdle

Reqs == DOMAIN req

\* `return new Response(...)`: the handler ends, and of its locals the model
\* keeps the request's token, the time of its select, the grant it resolved, the
\* value its update wrote, the answer of the normalizer and whether a call threw.
Respond(r, resp) ==
  req' = [req EXCEPT ![r] = [IdleReq EXCEPT !.pc = "done",
                                            !.method = req[r].method,
                                            !.session_token = req[r].session_token,
                                            !.queryTime = req[r].queryTime,
                                            !.access = req[r].access,
                                            !.committed = req[r].committed,
                                            !.svgResponse = req[r].svgResponse,
                                            !.threw = req[r].threw,
                                            !.response = resp]]

\* An awaited call throws outside the inner try: the catch of lines 250-256,
\* which only a request past the OPTIONS test of line 19 can reach.
InternalError(r) ==
  req' = [req EXCEPT ![r] = [IdleReq EXCEPT !.pc = "done",
                                            !.method = "POST",
                                            !.session_token = req[r].session_token,
                                            !.queryTime = req[r].queryTime,
                                            !.access = req[r].access,
                                            !.committed = req[r].committed,
                                            !.svgResponse = req[r].svgResponse,
                                            !.threw = TRUE,
                                            !.response =
                                               ErrorResponse(500, "Internal server error")]]

\* Time passes between any two steps.
Tick ==
  /\ now < MaxClock
  /\ now' = now + 1
  /\ UNCHANGED <<document_access, initial_prints, print_logs, enhanceUrl, req, otherProcesses>>

\* Requests are numbered in the order they arrive.
Arrives(r) ==
  /\ req[r].pc = "idle"
  /\ \A q \in Reqs : q < r => req[q].pc # "idle"

\* OPTIONS: the CORS preflight.
PreflightFallsThrough(r) ==
  /\ Arrives(r)
  /\ \E t \in Tokens \ {NoToken} :
       req' = [req EXCEPT ![r].pc = "select",
                          ![r].method = "OPTIONS",
                          ![r].session_token = t,
                          ![r].queryTime = now]
  /\ UNCHANGED <<document_access, initial_prints, print_logs, now, enhanceUrl, otherProcesses>>

Preflight(r) ==
  /\ Arrives(r)
  /\ req' = [req EXCEPT ![r] = [IdleReq EXCEPT !.pc = "done",
                                               !.method = "OPTIONS",
                                               !.response = PreflightResponse]]
  /\ UNCHANGED <<document_access, initial_prints, print_logs, now, enhanceUrl, otherProcesses>>

\* Line 28: `!session_token`.
TokenMissingNever(t) == FALSE

TokenMissing(t) == t = NoToken

\* Any other method: req.json() settles: it throws on a malformed body, or
\* yields session_token.  A present token builds the select, whose time bound
\* is read from the clock here.
ReadBody(r) ==
  /\ Arrives(r)
  /\ \/ InternalError(r)
     \/ \E t \in Tokens :
          IF TokenMissing(t)
          THEN req' = [req EXCEPT ![r] = [IdleReq EXCEPT
                         !.pc = "done", !.method = "POST",
                         !.response = ErrorResponse(400, "Session token required")]]
          ELSE req' = [req EXCEPT ![r].pc = "select",
                                  ![r].method = "POST",
                                  ![r].session_token = t,
                                  ![r].queryTime = now]
  /\ UNCHANGED <<document_access, initial_prints, print_logs, now, enhanceUrl, otherProcesses>>

\* The rows the select of lines 43-51 matches when the database runs it.
SelectAccessByTokenOnly(t, time) == {g \in Grants : g = t}

SelectAccess(t, time) ==
  {g \in Grants : g = t /\ document_access[g].expires_at > time}

\* Line 62: the print limit check.
PrintLimitAlsoZero(remaining) == remaining < 0

PrintLimitReached(remaining) == remaining <= 0

\* Line 71: `!document`, the joined documents row of the grant.
DocumentNeverMissing(document_id) == FALSE

DocumentMissing(document_id) == document_id = NoDocument

\* The select settles; then the checks of lines 53-77 and the download is started.
ValidateSession(r) ==
  /\ req[r].pc = "select"
  /\ \/ Respond(r, ErrorResponse(403, "Invalid or expired session"))   \* accessError
     \/ LET rows == SelectAccess(req[r].session_token, req[r].queryTime) IN
        IF rows = {}
        THEN Respond(r, ErrorResponse(403, "Invalid or expired session"))
        ELSE LET g == CHOOSE x \in rows : TRUE
                 access == document_access[g]
             IN
             IF PrintLimitReached(access.remaining_prints)
             THEN req' = [req EXCEPT ![r] = [IdleReq EXCEPT
                            !.pc = "done", !.method = req[r].method,
                            !.session_token = req[r].session_token,
                            !.queryTime = req[r].queryTime,
                            !.access = g, !.response = PrintLimitResponse]]
             ELSE IF DocumentMissing(access.document_id)
             THEN req' = [req EXCEPT ![r] = [IdleReq EXCEPT
                            !.pc = "done", !.method = req[r].method,
                            !.session_token = req[r].session_token,
                            !.queryTime = req[r].queryTime,
                            !.access = g,
                            !.response = ErrorResponse(404, "Document not found")]]
             ELSE req' = [req EXCEPT ![r].pc = "download",
                                     ![r].queryTime = 0,
                                     ![r].access = g,
                                     ![r].remaining_prints = access.remaining_prints,
                                     ![r].document = access.document_id]
  /\ UNCHANGED <<document_access, initial_prints, print_logs, now, enhanceUrl, otherProcesses>>

\* The value written by the update of lines 93-97.
NewRemainingPrints(remaining) == remaining - 1

\* The storage download settles; on success the update is built and started.
DownloadFile(r) ==
  /\ req[r].pc = "download"
  /\ \/ Respond(r, ErrorResponse(500, "Failed to retrieve document"))
     \/ req' = [req EXCEPT ![r].pc = "update",
                           ![r].fileData = FileBytes(req[r].document),
                           ![r].newRemainingPrints =
                              NewRemainingPrints(req[r].remaining_prints)]
  /\ UNCHANGED <<document_access, initial_prints, print_logs, now, enhanceUrl, otherProcesses>>

\* The row the update leaves: update({remaining_prints: n}).eq('id', access.id).
UpdateRow(row, n) == [row EXCEPT !.remaining_prints = n]

\* The update settles: with an error and no write, or written.
UpdateRemainingUnchecked(r) ==
  /\ req[r].pc = "update"
  /\ \/ /\ req' = [req EXCEPT ![r].pc = "log"]
        /\ UNCHANGED document_access
     \/ /\ document_access' =
             [document_access EXCEPT ![req[r].access] =
                [@ EXCEPT !.remaining_prints = req[r].newRemainingPrints]]
        /\ req' = [req EXCEPT ![r].pc = "log",
                              ![r].committed =
                                 document_access'[req[r].access].remaining_prints]
  /\ UNCHANGED <<initial_prints, print_logs, now, enhanceUrl, otherProcesses>>

UpdateRemainingEveryRow(r) ==
  /\ req[r].pc = "update"
  /\ \/ /\ Respond(r, ErrorResponse(500, "Failed to process print request"))
        /\ UNCHANGED document_access
     \/ /\ document_access' =
             [g \in Grants |-> UpdateRow(document_access[g], req[r].newRemainingPrints)]
        /\ req' = [req EXCEPT ![r].pc = "log",
                              ![r].committed =
                                 document_access'[req[r].access].remaining_prints]
  /\ UNCHANGED <<initial_prints, print_logs, now, enhanceUrl, otherProcesses>>

UpdateRemaining(r) ==
  /\ req[r].pc = "update"
  /\ \/ /\ Respond(r, ErrorResponse(500, "Failed to process print request"))
        /\ UNCHANGED document_access
     \/ /\ document_access' =
             [document_access EXCEPT ![req[r].access] =
                UpdateRow(@, req[r].newRemainingPrints)]
        /\ req' = [req EXCEPT ![r].pc = "log",
                              ![r].committed =
                                 document_access'[req[r].access].remaining_prints]
  /\ UNCHANGED <<initial_prints, print_logs, now, enhanceUrl, otherProcesses>>

\* After the log insert: the stage the handler enters with its buffer set.
AfterBufferAlwaysEnhances(r, buf) ==
  req' = [req EXCEPT ![r].pc = "enhance",
                     ![r].originalPdfBuffer = buf]

AfterBuffer(r, buf) ==
  req' = [req EXCEPT ![r].pc = IF enhanceUrl THEN "enhance" ELSE "watermark",
                     ![r].originalPdfBuffer = buf]

\* The print_logs insert settles (a failure is only logged); then lines 125-161
\* up to the normalizer call, or past it for a PDF.
InsertPrintLogOrFail(r) ==
  /\ req[r].pc = "log"
  /\ \/ /\ print_logs' = print_logs \cup
              {[id |-> r, document_id |-> req[r].document,
                session_token |-> req[r].session_token]}
        /\ IF isSvg(req[r].document)
           THEN req' = [req EXCEPT ![r].pc = "convert"]
           ELSE AfterBuffer(r, req[r].fileData)
     \/ /\ UNCHANGED print_logs
        /\ Respond(r, ErrorResponse(500, "Failed to log print"))
  /\ UNCHANGED <<document_access, initial_prints, now, enhanceUrl, otherProcesses>>

InsertPrintLog(r) ==
  /\ req[r].pc = "log"
  /\ \/ print_logs' = print_logs \cup
           {[id |-> r, document_id |-> req[r].document,
             session_token |-> req[r].session_token]}
     \/ UNCHANGED print_logs                                          \* logError
  /\ IF isSvg(req[r].document)
     THEN req' = [req EXCEPT ![r].pc = "convert"]
     ELSE AfterBuffer(r, req[r].fileData)
  /\ UNCHANGED <<document_access, initial_prints, now, enhanceUrl, otherProcesses>>

\* The svg-to-pdf fetch settles: it throws, answers non-ok, or answers a PDF.
ConvertSvgAnyStatus(r) ==
  /\ req[r].pc = "convert"
  /\ \/ InternalError(r)
     \/ \E st \in {"failed", "ok"} :
          req' = [req EXCEPT
                    ![r].pc = IF enhanceUrl THEN "enhance" ELSE "watermark",
                    ![r].svgResponse = st,
                    ![r].originalPdfBuffer = ConvertedBytes(req[r].document)]
  /\ UNCHANGED <<document_access, initial_prints, print_logs, now, enhanceUrl, otherProcesses>>

ConvertSvgSwallowsThrow(r) ==
  /\ req[r].pc = "convert"
  /\ \/ req' = [req EXCEPT
                   ![r].pc = IF enhanceUrl THEN "enhance" ELSE "watermark",
                   ![r].threw = TRUE,
                   ![r].originalPdfBuffer = req[r].fileData]
     \/ req' = [req EXCEPT ![r] = [IdleReq EXCEPT
                   !.pc = "done", !.method = req[r].method,
                   !.session_token = req[r].session_token,
                   !.access = req[r].access, !.committed = req[r].committed,
                   !.svgResponse = "failed",
                   !.response = ErrorResponse(500,
                      "Failed to convert SVG document for printing")]]
     \/ req' = [req EXCEPT
                   ![r].pc = IF enhanceUrl THEN "enhance" ELSE "watermark",
                   ![r].svgResponse = "ok",
                   ![r].originalPdfBuffer = ConvertedBytes(req[r].document)]
  /\ UNCHANGED <<document_access, initial_prints, print_logs, now, enhanceUrl, otherProcesses>>

ConvertSvg(r) ==
  /\ req[r].pc = "convert"
  /\ \/ InternalError(r)
     \/ req' = [req EXCEPT ![r] = [IdleReq EXCEPT
                   !.pc = "done", !.method = req[r].method,
                   !.session_token = req[r].session_token,
                   !.access = req[r].access, !.committed = req[r].committed,
                   !.svgResponse = "failed",
                   !.response = ErrorResponse(500,
                      "Failed to convert SVG document for printing")]]
     \/ req' = [req EXCEPT
                   ![r].pc = IF enhanceUrl THEN "enhance" ELSE "watermark",
                   ![r].svgResponse = "ok",
                   ![r].originalPdfBuffer = ConvertedBytes(req[r].document)]
  /\ UNCHANGED <<document_access, initial_prints, print_logs, now, enhanceUrl, otherProcesses>>

\* Lines 189-196: what the buffer becomes for an answer of the enhancement service.
EnhancedAlsoEmpty(buffer, ok, body) ==
  IF ok THEN body ELSE buffer

Enhanced(buffer, ok, body) ==
  IF ok /\ byteLength(body) > 0 THEN body ELSE buffer

\* The enhancement fetch settles: it throws (caught at line 198), or answers.
Enhance(r) ==
  /\ req[r].pc = "enhance"
  /\ \/ req' = [req EXCEPT ![r].pc = "watermark", ![r].enhance = "threw",
                           ![r].threw = TRUE]
     \/ \E ok \in BOOLEAN, body \in {EmptyBytes, EnhancedBytes(req[r].document)} :
          req' = [req EXCEPT
                    ![r].pc = "watermark",
                    ![r].enhance = IF ~ok THEN "status"
                                   ELSE IF byteLength(body) = 0 THEN "empty"
                                   ELSE "replaced",
                    ![r].originalPdfBuffer = Enhanced(@, ok, body)]
  /\ UNCHANGED <<document_access, initial_prints, print_logs, now, enhanceUrl, otherProcesses>>

\* Lines 205-231: both texts drawn on every page.  The rows carry no
\* watermark_text, so the diagonal text starts with the fallback of line 206.
\* The footer interpolates `${newRemainingPrints}`: the number as a string.
StampPageStaleFooter(page, token, time, remaining) ==
  [page EXCEPT !.texts = @ \o
     << [kind |-> "diagonal", base |-> "Licensed Print", time |-> time, token |-> token],
        [kind |-> "footer", token |-> token, remaining |-> ToString(remaining + 1)] >>]

StampPage(page, token, time, remaining) ==
  [page EXCEPT !.texts = @ \o
     << [kind |-> "diagonal", base |-> "Licensed Print", time |-> time, token |-> token],
        [kind |-> "footer", token |-> token, remaining |-> ToString(remaining)] >>]

\* `for (const page of pages)`: every page of the loaded document, in order.
WatermarkedFirstPageOnly(buffer, token, time, remaining) ==
  [kind |-> "watermarked", doc |-> buffer.doc, of |-> buffer.kind,
   pages |-> [i \in 1..PageCount(buffer) |->
                IF i = 1
                THEN StampPage(getPages(buffer)[i], token, time, remaining)
                ELSE getPages(buffer)[i]]]

WatermarkedBytes(buffer, token, time, remaining) ==
  [kind |-> "watermarked", doc |-> buffer.doc, of |-> buffer.kind,
   pages |-> [i \in 1..PageCount(buffer) |->
                StampPage(getPages(buffer)[i], token, time, remaining)]]

\* PDFDocument.load / save throw, or the stamped document is returned.
Watermark(r) ==
  /\ req[r].pc = "watermark"
  /\ \/ InternalError(r)
     \/ Respond(r, PdfResponse(
           WatermarkedBytes(req[r].originalPdfBuffer, req[r].session_token,
                            now, req[r].newRemainingPrints),
           req[r].newRemainingPrints))
  /\ UNCHANGED <<document_access, initial_prints, print_logs, now, enhanceUrl, otherProcesses>>

Next ==
  \/ Tick
  \/ \E r \in Reqs : Preflight(r)
  \/ \E r \in Reqs : ReadBody(r)
  \/ \E r \in Reqs : ValidateSession(r)
  \/ \E r \in Reqs : DownloadFile(r)
  \/ \E r \in Reqs : UpdateRemaining(r)
  \/ \E r \in Reqs : InsertPrintLog(r)
  \/ \E r \in Reqs : ConvertSvg(r)
  \/ \E r \in Reqs : Enhance(r)
  \/ \E r \in Reqs : Watermark(r)

\* The steps of one request.
RequestStep(r) ==
  \/ Preflight(r) \/ ReadBody(r) \/ ValidateSession(r) \/ DownloadFile(r)
  \/ UpdateRemaining(r) \/ InsertPrintLog(r) \/ ConvertSvg(r) \/ Enhance(r)
  \/ Watermark(r)

Spec == Init /\ [][Next]_vars

SpecRace == InitRace /\ [][Next]_vars

\* --------------------------------------------------- calls that never return
\* The awaited calls to the database, the storage and the two delegates carry
\* no timeout and no AbortSignal (lines 43-51, 80-82, 93-97, 108-117, 144-147,
\* 183-187): when one of them never settles, its `await` never resumes.  The
\* update may or may not have been written by then.
Hang(r) ==
  /\ req[r].pc \in {"select", "download", "update", "log", "convert", "enhance"}
  /\ req' = [req EXCEPT ![r].pc = "hung"]
  /\ \/ UNCHANGED document_access
     \/ /\ req[r].pc = "update"
        /\ document_access' =
             [document_access EXCEPT ![req[r].access] =
                UpdateRow(@, req[r].newRemainingPrints)]
  /\ UNCHANGED <<initial_prints, print_logs, now, enhanceUrl, otherProcesses>>

\* One grant with MaxPrints prints of the SVG document, enhancement configured.
InitHang ==
  /\ document_access =
       [g \in Grants |-> [remaining_prints |-> IF g = 1 THEN MaxPrints ELSE 0,
                          expires_at |-> g,
                          document_id |-> IF g = 1 THEN 2 ELSE NoDocument]]
  /\ enhanceUrl = TRUE
  /\ Start(NumReqs)
  /\ render = <<>>
  /\ normalizer = NoUpload
  /\ BackendIdle
  /\ ToolsIdle

NextHang ==
  \/ Next
  \/ \E r \in Reqs : Hang(r)

SpecHang == InitHang /\ [][NextHang]_vars

\* ------------------------------------------------- the svg-to-pdf service
\* svg-to-pdf-service/index.js.  A text is a sequence of characters; null is
\* the empty sequence.
WhiteSpace == {" "}

\* `\s*`: the first index from i on that holds no white space.
RECURSIVE SkipSpace(_, _)
SkipSpace(text, i) ==
  IF i <= Len(text) /\ text[i] \in WhiteSpace THEN SkipSpace(text, i + 1) ELSE i

\* The first index from i on that holds a character of cs, 0 when there is none.
RECURSIVE IndexOf(_, _, _)
IndexOf(text, cs, i) ==
  IF i > Len(text) THEN 0
  ELSE IF text[i] \in cs THEN i
  ELSE IndexOf(text, cs, i + 1)

\* /viewBox\s*=\s*"([^"]+)"/i tried at index i: its capture, null without a match.
MatchAt(text, quote, i) ==
  LET a == i + 7
      b == SkipSpace(text, a)
      c == SkipSpace(text, b + 1)
      d == IndexOf(text, {quote}, c + 1)
  IN
  IF /\ a - 1 <= Len(text)
     /\ toLowerCase(SubSeq(text, i, a - 1)) = <<"v", "i", "e", "w", "b", "o", "x">>
     /\ b <= Len(text)
     /\ text[b] = "="
     /\ c <= Len(text)
     /\ text[c] = quote
     /\ d > c + 1
  THEN SubSeq(text, c + 1, d - 1)
  ELSE <<>>

\* String.prototype.match: the capture of the leftmost match.
RegExpMatch(text, quote) ==
  LET hits == {i \in 1..Len(text) : MatchAt(text, quote, i) # <<>>} IN
  IF hits = {} THEN <<>>
  ELSE MatchAt(text, quote, CHOOSE i \in hits : \A j \in hits : i <= j)

RECURSIVE trimStart(_)
trimStart(s) ==
  IF s # <<>> /\ Head(s) \in WhiteSpace THEN trimStart(Tail(s)) ELSE s

RECURSIVE trimEnd(_)
trimEnd(s) ==
  IF s # <<>> /\ s[Len(s)] \in WhiteSpace
  THEN trimEnd(SubSeq(s, 1, Len(s) - 1))
  ELSE s

trim(s) == trimEnd(trimStart(s))

\* split(/\s+/): the pieces between runs of white space.
RECURSIVE split(_)
split(s) ==
  LET i == IndexOf(s, WhiteSpace, 1) IN
  IF i = 0 THEN <<s>>
  ELSE <<SubSeq(s, 1, i - 1)>> \o split(SubSeq(s, SkipSpace(s, i), Len(s)))

DigitValue ==
  [c \in {"0", "1", "2", "3", "4", "5", "6", "7", "8", "9"} |->
     CASE c = "0" -> 0 [] c = "1" -> 1 [] c = "2" -> 2 [] c = "3" -> 3
       [] c = "4" -> 4 [] c = "5" -> 5 [] c = "6" -> 6 [] c = "7" -> 7
       [] c = "8" -> 8 [] c = "9" -> 9]

IsDigits(s) == s # <<>> /\ \A i \in DOMAIN s : s[i] \in DOMAIN DigitValue

RECURSIVE DecimalValue(_)
DecimalValue(s) ==
  IF s = <<>> THEN 0
  ELSE 10 * DecimalValue(SubSeq(s, 1, Len(s) - 1)) + DigitValue[s[Len(s)]]

\* Number(v) of a text without white space, over signs, digits and any other
\* character: the empty text is 0, a signed run of digits is its value, and
\* every other text is NaN.
NaN == [finite |-> FALSE, value |-> 0]

Number(v) ==
  IF v = <<>> THEN [finite |-> TRUE, value |-> 0]
  ELSE IF IsDigits(v) THEN [finite |-> TRUE, value |-> DecimalValue(v)]
  ELSE IF Head(v) = "-" /\ IsDigits(Tail(v))
       THEN [finite |-> TRUE, value |-> 0 - DecimalValue(Tail(v))]
  ELSE IF Head(v) = "+" /\ IsDigits(Tail(v))
       THEN [finite |-> TRUE, value |-> DecimalValue(Tail(v))]
  ELSE NaN

\* Lines 9-27.
getPageSizeFromViewBox(svgText) ==
  LET viewBoxMatch == RegExpMatch(svgText, "\"")
      pieces == split(trim(viewBoxMatch))
      parts == [i \in DOMAIN pieces |-> Number(pieces[i])]
  IN
  IF viewBoxMatch = <<>> THEN <<>>
  ELSE IF Len(parts) # 4 \/ \E i \in DOMAIN parts : ~parts[i].finite THEN <<>>
  ELSE IF parts[3].value <= 0 \/ parts[4].value <= 0 THEN <<>>
  ELSE <<parts[3].value, parts[4].value>>

\* The uploads: an <svg> start tag whose viewBox value is any text of up to
\* MaxValueLen characters, in double or single quotes, the fixed values
\* below, or a tag without the attribute; and a request without a file.
ValueChars == {"0", "2", " ", ","}

Values ==
  UNION {[1..n -> ValueChars] : n \in 0..MaxValueLen}
    \cup { <<"0", " ", "0", " ", "3", "0", "0", " ", "2", "0", "0">>,
           <<"0", ",", "0", ",", "3", "0", "0", ",", "2", "0", "0">>,
           <<"0", " ", "0", " ", "-", "2", " ", "2">>,
           <<"0", " ", "0", " ", "2", " ", "x">> }

SvgTag(quote, value) ==
  <<"<", "s", "v", "g", " ", "v", "i", "e", "w", "B", "o", "x", "=">>
    \o <<quote>> \o value \o <<quote>> \o <<">">>

SvgTexts ==
  {SvgTag(q, v) : q \in {"\"", "'"}, v \in Values} \cup {<<"<", "s", "v", "g", ">">>}

InitViewBox ==
  /\ document_access =
       [g \in Grants |-> [remaining_prints |-> 0, expires_at |-> g,
                          document_id |-> NoDocument]]
  /\ enhanceUrl = FALSE
  /\ Start(0)
  /\ render = <<>>
  /\ normalizer \in
       {[NoUpload EXCEPT !.pc = "received", !.file = TRUE, !.svgText = t] :
          t \in SvgTexts}
         \cup {[NoUpload EXCEPT !.pc = "received"]}
  /\ BackendIdle
  /\ ToolsIdle

\* POST /svg-to-pdf, lines 29-62: 400 without a file; else the page is added
\* with the chosen size, and the PDF is sent unless drawing the SVG throws.
SvgToPdf ==
  /\ normalizer.pc = "received"
  /\ IF ~normalizer.file
     THEN normalizer' = [normalizer EXCEPT !.pc = "done", !.status = 400]
     ELSE LET size == getPageSizeFromViewBox(normalizer.svgText)
              pageSize == IF size = <<>> THEN <<"A4">> ELSE size
          IN \E st \in {200, 500} :
               normalizer' = [normalizer EXCEPT !.pc = "done",
                                                !.pageSize = pageSize,
                                                !.status = st]
  /\ UNCHANGED <<printVars, backendVars, toolVars>>

NextViewBox == SvgToPdf

SpecViewBox == InitViewBox /\ [][NextViewBox]_vars

\* --------------------------------------------------------- secure-render
\* part_002 lines 267-354: the second edge function, on the same tables.
IdleRender ==
  [pc |-> "idle", session_token |-> NoToken, queryTime |-> 0, access |-> 0,
   document |-> NoDocument, response |-> NoResponse]

\* Lines 338-347: the headers of secure-print without X-Remaining-Prints.
RenderHeaders ==
  corsHeaders @@ ("Content-Type" :> "application/pdf")
              @@ ("Content-Disposition" :> "inline")
              @@ ("Cache-Control" :> "no-store, no-cache, must-revalidate, private")
              @@ ("Pragma" :> "no-cache")
              @@ ("Expires" :> "0")
              @@ ("X-Download-Options" :> "noopen")
              @@ ("X-Content-Type-Options" :> "nosniff")

\* One secure-print request and NumRenders secure-render requests; grant 2
\* is for the SVG document, and enhancement is configured.
InitRender ==
  /\ document_access \in
       {[g \in Grants |-> [remaining_prints |-> p[g], expires_at |-> g,
                           document_id |-> IF g = 1 THEN d ELSE 2]] :
          p \in [Grants -> 0..MaxPrints], d \in {NoDocument} \cup Documents}
  /\ enhanceUrl = TRUE
  /\ initial_prints = [g \in Grants |-> document_access[g].remaining_prints]
  /\ print_logs = {}
  /\ now = 0
  /\ req = [r \in 1..1 |-> IdleReq]
  /\ render = [k \in 1..NumRenders |-> IdleRender]
  /\ normalizer = NoUpload
  /\ BackendIdle
  /\ ToolsIdle

Renders == DOMAIN render

RenderResponds(k, resp) ==
  render' = [render EXCEPT ![k].pc = "done", ![k].document = NoDocument,
                           ![k].response = resp]

\* Lines 270-272.
RenderPreflight(k) ==
  /\ render[k].pc = "idle"
  /\ RenderResponds(k, PreflightResponse)
  /\ UNCHANGED <<document_access, initial_prints, print_logs, now, enhanceUrl, req,
                 normalizer, backendVars, toolVars>>

\* Lines 274-300: req.json() settles and the select is built.
RenderReadBody(k) ==
  /\ render[k].pc = "idle"
  /\ \/ RenderResponds(k, ErrorResponse(500, "Internal server error"))
     \/ \E t \in Tokens :
          IF TokenMissing(t)
          THEN RenderResponds(k, ErrorResponse(400, "Session token required"))
          ELSE render' = [render EXCEPT ![k].pc = "select",
                                        ![k].session_token = t,
                                        ![k].queryTime = now]
  /\ UNCHANGED <<document_access, initial_prints, print_logs, now, enhanceUrl, req,
                 normalizer, backendVars, toolVars>>

\* The select settles; lines 302-317, and the download is started.
RenderValidateWithLimit(k) ==
  /\ render[k].pc = "select"
  /\ LET rows == SelectAccess(render[k].session_token, render[k].queryTime) IN
     IF rows = {}
     THEN RenderResponds(k, ErrorResponse(403, "Invalid or expired session"))
     ELSE LET g == CHOOSE x \in rows : TRUE
              access == document_access[g]
          IN
          IF PrintLimitReached(access.remaining_prints)
          THEN render' = [render EXCEPT ![k].pc = "done", ![k].access = g,
                                        ![k].response = PrintLimitResponse]
          ELSE render' = [render EXCEPT ![k].pc = "download",
                                        ![k].access = g,
                                        ![k].document = access.document_id]
  /\ UNCHANGED <<document_access, initial_prints, print_logs, now, enhanceUrl, req,
                 normalizer, backendVars, toolVars>>

RenderValidate(k) ==
  /\ render[k].pc = "select"
  /\ \/ RenderResponds(k, ErrorResponse(403, "Invalid or expired session"))
     \/ LET rows == SelectAccess(render[k].session_token, render[k].queryTime) IN
        IF rows = {}
        THEN RenderResponds(k, ErrorResponse(403, "Invalid or expired session"))
        ELSE LET g == CHOOSE x \in rows : TRUE
                 access == document_access[g]
             IN
             IF DocumentMissing(access.document_id)
             THEN render' = [render EXCEPT
                               ![k].pc = "done", ![k].access = g,
                               ![k].response =
                                  ErrorResponse(404, "Document not found")]
             ELSE render' = [render EXCEPT ![k].pc = "download",
                                           ![k].access = g,
                                           ![k].document = access.document_id]
  /\ UNCHANGED <<document_access, initial_prints, print_logs, now, enhanceUrl, req,
                 normalizer, backendVars, toolVars>>

\* The download settles; lines 324-348.
RenderDownload(k) ==
  /\ render[k].pc = "download"
  /\ \/ RenderResponds(k, ErrorResponse(500, "Failed to retrieve document"))
     \/ RenderResponds(k, ErrorResponse(500, "Internal server error"))
     \/ RenderResponds(k, [status |-> 200, headers |-> RenderHeaders,
                           body |-> [pdf |-> FileBytes(render[k].document)]])
  /\ UNCHANGED <<document_access, initial_prints, print_logs, now, enhanceUrl, req,
                 normalizer, backendVars, toolVars>>

NextRender ==
  \/ Next
  \/ \E k \in Renders : RenderPreflight(k)
  \/ \E k \in Renders : RenderReadBody(k)
  \/ \E k \in Renders : RenderValidate(k)
  \/ \E k \in Renders : RenderDownload(k)

SpecRender == InitRender /\ [][NextRender]_vars

\* ------------------------------------------------------ the admin backend
\* part_001, POST /documents/:id/assign-by-email, for one document id and
\* one registered user.  A request is cut at its awaits: User.findOne,
\* DocumentAccess.findOneAndUpdate, access.save.  crypto.randomBytes gives
\* request a the token a; OldToken is a token issued before the first request.
OldToken == NumAssigns + 1

IdleAssign ==
  [pc |-> "idle", parsedQuota |-> 0, access |-> NoAccess,
   response |-> [status |-> 0]]

InitAssign ==
  /\ document_access =
       [g \in Grants |-> [remaining_prints |-> 0, expires_at |-> g,
                          document_id |-> NoDocument]]
  /\ enhanceUrl = FALSE
  /\ Start(0)
  /\ render = <<>>
  /\ normalizer = NoUpload
  /\ ToolsIdle
  /\ DocumentAccess \in
       {NoAccess,
        [exists |-> TRUE, assignedQuota |-> 1, sessionToken |-> NoSessionToken],
        [exists |-> TRUE, assignedQuota |-> 1, sessionToken |-> OldToken]}
  /\ assign = [a \in 1..NumAssigns |-> IdleAssign]
  /\ Session = {}
  /\ BlockedIp = <<>>
  /\ block = <<>>

Assigns == DOMAIN assign

AssignResponds(a, st, body) ==
  assign' = [assign EXCEPT ![a].pc = "done",
                           ![a].response = [status |-> st, body |-> body]]

AssignInternalError(a) ==
  AssignResponds(a, 500, [message |-> "Internal server error"])

\* Lines 169-181: the body is checked and User.findOne is started.
AssignByEmail(a) ==
  /\ assign[a].pc = "idle"
  /\ \E email \in BOOLEAN, assignedQuota \in -1..MaxQuota :
       IF ~email \/ assignedQuota = 0
       THEN AssignResponds(a, 400, [message |-> "email and assignedQuota are required"])
       ELSE IF assignedQuota <= 0
       THEN AssignResponds(a, 400, [message |-> "assignedQuota must be a positive number"])
       ELSE assign' = [assign EXCEPT ![a].pc = "findUser",
                                     ![a].parsedQuota = assignedQuota]
  /\ UNCHANGED <<printVars, normalizer, toolVars, DocumentAccess, blockVars>>

\* User.findOne settles (lines 181-184); findOneAndUpdate is started.
AssignFindUser(a) ==
  /\ assign[a].pc = "findUser"
  /\ \/ AssignInternalError(a)
     \/ AssignResponds(a, 404, [message |-> "User with this email not found"])
     \/ assign' = [assign EXCEPT ![a].pc = "upsert"]
  /\ UNCHANGED <<printVars, normalizer, toolVars, DocumentAccess, blockVars>>

\* The test of line 192.
HasSessionToken(access) == access.sessionToken # NoSessionToken

\* findOneAndUpdate with upsert and new settles (lines 186-190): the record
\* exists with the new quota and is returned; without a token on it, one is
\* drawn and save is started (lines 192-194).
AssignUpsert(a) ==
  /\ assign[a].pc = "upsert"
  /\ \/ /\ AssignInternalError(a)
        /\ UNCHANGED DocumentAccess
     \/ LET access == [DocumentAccess EXCEPT !.exists = TRUE,
                                             !.assignedQuota = assign[a].parsedQuota]
        IN /\ DocumentAccess' = access
           /\ IF HasSessionToken(access)
              THEN AssignResponds(a, 200, access)
              ELSE assign' = [assign EXCEPT
                                ![a].pc = "save",
                                ![a].access = [access EXCEPT !.sessionToken = a]]
  /\ UNCHANGED <<printVars, normalizer, toolVars, blockVars>>

\* access.save() settles: the modified path, sessionToken, is written.
AssignSave(a) ==
  /\ assign[a].pc = "save"
  /\ \/ /\ AssignInternalError(a)
        /\ UNCHANGED DocumentAccess
     \/ /\ DocumentAccess' =
             [DocumentAccess EXCEPT !.sessionToken = assign[a].access.sessionToken]
        /\ AssignResponds(a, 200, assign[a].access)
  /\ UNCHANGED <<printVars, normalizer, toolVars, blockVars>>

NextAssign ==
  \/ \E a \in Assigns : AssignByEmail(a)
  \/ \E a \in Assigns : AssignFindUser(a)
  \/ \E a \in Assigns : AssignUpsert(a)
  \/ \E a \in Assigns : AssignSave(a)

SpecAssign == InitAssign /\ [][NextAssign]_vars

\* POST /sessions/:sessionId/block-ip (part_001 lines 78-108), cut at its
\* awaits: Session.findById, BlockedIp.findOneAndUpdate, Session.deleteMany;
\* with POST /sessions/:sessionId/logout (lines 65-76) beside it.  A session
\* is [id, ip]; BlockedIp[ip] counts the records with that ip.
SessionIds == 1..NumSessions
Ips == 1..NumIps

\* The ids a request can name: one that is no ObjectId, the ids of the
\* sessions, and a well-formed id no session has.
MalformedId == 0
UnknownSessionId == NumSessions + 1
RequestIds == {MalformedId, UnknownSessionId} \cup SessionIds

IdleBlock ==
  [pc |-> "idle", sessionId |-> MalformedId, ip |-> 0, dbError |-> FALSE,
   status |-> 0]

\* A database call rejects: the catch of the route answers 500.
BlockInternalError(b) ==
  block' = [block EXCEPT ![b].pc = "done", ![b].dbError = TRUE, ![b].status = 500]

InitBlock ==
  /\ document_access =
       [g \in Grants |-> [remaining_prints |-> 0, expires_at |-> g,
                          document_id |-> NoDocument]]
  /\ enhanceUrl = FALSE
  /\ Start(0)
  /\ render = <<>>
  /\ normalizer = NoUpload
  /\ ToolsIdle
  /\ DocumentAccess = NoAccess
  /\ assign = <<>>
  /\ Session \in
       {{[id |-> i, ip |-> ipOf[i]] : i \in ids} :
          ids \in SUBSET SessionIds, ipOf \in [SessionIds -> Ips]}
  /\ BlockedIp \in [Ips -> 0..1]
  /\ block = [b \in 1..NumBlocks |-> IdleBlock]

Blocks == DOMAIN block

\* Session.findById: mongoose casts the id to an ObjectId first and rejects
\* when it cannot; otherwise the session with that id, if any.
findById(sessionId) == {session \in Session : session.id = sessionId}

\* Lines 80-83: findById is started.
BlockIp(b) ==
  /\ block[b].pc = "idle"
  /\ \E sessionId \in RequestIds :
       block' = [block EXCEPT ![b].pc = "findById", ![b].sessionId = sessionId]
  /\ UNCHANGED <<printVars, normalizer, toolVars, assignVars, Session, BlockedIp>>

\* findById settles (lines 83-88): the cast of the id fails and the catch
\* answers 500; or 404 without a session; else the upsert is started with
\* the session's ip.
BlockFindSession(b) ==
  /\ block[b].pc = "findById"
  /\ \/ BlockInternalError(b)
     \/ IF block[b].sessionId = MalformedId
        THEN block' = [block EXCEPT ![b].pc = "done", ![b].status = 500]
        ELSE IF findById(block[b].sessionId) = {}
        THEN block' = [block EXCEPT ![b].pc = "done", ![b].status = 404]
        ELSE LET session == CHOOSE x \in findById(block[b].sessionId) : TRUE IN
             block' = [block EXCEPT ![b].pc = "upsert", ![b].ip = session.ip]
  /\ UNCHANGED <<printVars, normalizer, toolVars, assignVars, Session, BlockedIp>>

\* findOneAndUpdate({ ip }, ..., { upsert: true }) on the unique ip: the
\* number of records with this ip afterwards.
Upsert(count) == IF count = 0 THEN 1 ELSE count

\* The upsert settles (lines 90-99); deleteMany is started.
BlockUpsert(b) ==
  /\ block[b].pc = "upsert"
  /\ \/ /\ BlockInternalError(b)
        /\ UNCHANGED BlockedIp
     \/ /\ BlockedIp' = [BlockedIp EXCEPT ![block[b].ip] = Upsert(@)]
        /\ block' = [block EXCEPT ![b].pc = "deleteMany"]
  /\ UNCHANGED <<printVars, normalizer, toolVars, assignVars, Session>>

\* Session.deleteMany({ ip }) settles (lines 101-103).
BlockDeleteSessions(b) ==
  /\ block[b].pc = "deleteMany"
  /\ \/ /\ BlockInternalError(b)
        /\ UNCHANGED Session
     \/ /\ Session' = {session \in Session : session.ip # block[b].ip}
        /\ block' = [block EXCEPT ![b].pc = "done", ![b].status = 200]
  /\ UNCHANGED <<printVars, normalizer, toolVars, assignVars, BlockedIp>>

\* POST /sessions/:sessionId/logout: Session.deleteOne({ _id }).
LogoutSession ==
  /\ \E sessionId \in SessionIds :
       /\ findById(sessionId) # {}
       /\ Session' = Session \ findById(sessionId)
  /\ UNCHANGED <<printVars, normalizer, toolVars, assignVars, BlockedIp, block>>

NextBlock ==
  \/ LogoutSession
  \/ \E b \in Blocks : BlockIp(b)
  \/ \E b \in Blocks : BlockFindSession(b)
  \/ \E b \in Blocks : BlockUpsert(b)
  \/ \E b \in Blocks : BlockDeleteSessions(b)

SpecBlock == InitBlock /\ [][NextBlock]_vars

\* ------------------------------------------- convert-to-cmyk (CMYK server)
\* POST /api/convert-to-cmyk.  multer has stored the upload under a path of
\* its own before the route runs; the route spawns Ghostscript and registers
\* one listener for the child's 'error' event and one for its 'close' event.
\* Each listener runs to its end, or to its first throw, without interleaving.
\* A throw inside a listener is caught by nothing: it ends the process.
NumConverts == 3
Converts == 1..NumConverts
ExitCodes == {0, 1}

IdleConvert ==
  [pc |-> "idle", file |-> FALSE, inputExists |-> FALSE, outputExists |-> FALSE,
   errorFired |-> FALSE, closeFired |-> FALSE, streaming |-> FALSE,
   unlinkInput |-> 0, responses |-> 0, status |-> 0]

InitCmyk ==
  /\ document_access =
       [g \in Grants |-> [remaining_prints |-> 0, expires_at |-> g,
                          document_id |-> NoDocument]]
  /\ enhanceUrl = FALSE
  /\ Start(0)
  /\ render = <<>>
  /\ normalizer = NoUpload
  /\ BackendIdle
  /\ convert = [k \in Converts |-> IdleConvert]
  /\ cmykServer = "running"
  /\ series = NoSeries

\* The route up to spawn(): 400 without a file, else the child is started.
ConvertToCmyk(k) ==
  /\ cmykServer = "running"
  /\ convert[k].pc = "idle"
  /\ \E file \in BOOLEAN :
       convert' =
         [convert EXCEPT ![k] =
            IF ~file
              THEN [@ EXCEPT !.pc = "done", !.responses = 1, !.status = 400]
              ELSE [@ EXCEPT !.pc = "spawned", !.file = TRUE,
                             !.inputExists = TRUE]]
  /\ UNCHANGED <<printVars, normalizer, backendVars, cmykServer, series>>

\* fs.unlinkSync(inputPath) followed by res.status(status).send(...), as both
\* listeners do: unlinkSync throws when the path is gone, send throws when
\* the response was sent already.  c is the request's record with the event
\* already marked; the result is the record after the listener and whether
\* it threw.
UnlinkThenSend(c, status) ==
  LET called == [c EXCEPT !.unlinkInput = @ + 1]
  IN IF ~c.inputExists
       THEN [after |-> called, threw |-> TRUE]
       ELSE LET unlinked == [called EXCEPT !.inputExists = FALSE]
            IN IF c.responses > 0
                 THEN [after |-> unlinked, threw |-> TRUE]
                 ELSE [after |-> [unlinked EXCEPT !.responses = 1,
                                                  !.status = status,
                                                  !.pc = "done"],
                       threw |-> FALSE]

Listener(k, result) ==
  /\ convert' = [convert EXCEPT ![k] = result.after]
  /\ cmykServer' = IF result.threw THEN "crashed" ELSE cmykServer

\* gs.on('error', ...)
GsError(k) ==
  /\ cmykServer = "running"
  /\ convert[k].file
  /\ ~convert[k].errorFired
  /\ Listener(k, UnlinkThenSend([convert[k] EXCEPT !.errorFired = TRUE], 500))
  /\ UNCHANGED <<printVars, normalizer, backendVars, series>>

\* gs.on('close', ...): the input is unlinked first; a nonzero code answers
\* 500, code 0 starts piping the output file into the response.
GsClose(k) ==
  /\ cmykServer = "running"
  /\ convert[k].file
  /\ ~convert[k].closeFired
  /\ \E code \in ExitCodes :
       LET c == [convert[k] EXCEPT !.closeFired = TRUE,
                                   !.outputExists = (code = 0)]
           sent == UnlinkThenSend(c, IF code = 0 THEN 200 ELSE 500)
       IN Listener(k, IF code = 0 /\ ~sent.threw
                        THEN [sent EXCEPT !.after.streaming = TRUE]
                        ELSE sent)
  /\ UNCHANGED <<printVars, normalizer, backendVars, series>>

\* stream.on('close', ...): the output file is unlinked.
StreamClose(k) ==
  /\ cmykServer = "running"
  /\ convert[k].streaming
  /\ convert' = [convert EXCEPT ![k].streaming = FALSE,
                                ![k].outputExists = FALSE]
  /\ UNCHANGED <<printVars, normalizer, backendVars, cmykServer, series>>

NextCmyk ==
  \/ \E k \in Converts : ConvertToCmyk(k)
  \/ \E k \in Converts : GsError(k)
  \/ \E k \in Converts : GsClose(k)
  \/ \E k \in Converts : StreamClose(k)

SpecCmyk == InitCmyk /\ [][NextCmyk]_vars

\* ------------------------------------------------- generate-series (part_003)
\* generateSeriesPdf: the objects it writes, in the order it writes them,
\* each with the number taken from objNum, and the Kids array of the Pages
\* object.  Numbers are integers with startNumber <= endNumber.
MaxStartNumber == 5
MaxTotalNumbers == 9

\* Math.ceil(totalNumbers / 4) for totalNumbers >= 0
ceil(totalNumbers, perSheet) == (totalNumbers + perSheet - 1) \div perSheet

\* The numbers drawn on one sheet: positions 0..3 until totalNumbers is reached.
SheetNumbers(sheet, startNumber, totalNumbers) ==
  {startNumber + sheet * 4 + pos :
     pos \in {p \in 0..3 : sheet * 4 + p < totalNumbers}}

\* The loop of lines 105-164: per sheet a Page object, then its content stream.
RECURSIVE GeneratePages(_, _, _, _, _)
GeneratePages(sheet, sheetsNeeded, objNum, startNumber, totalNumbers) ==
  IF sheet >= sheetsNeeded
    THEN <<>>
    ELSE LET pageNum == objNum
             contentRef == objNum + 1
             contentNum == objNum + 1
         IN <<[num |-> pageNum, type |-> "Page", ref |-> contentRef,
               numbers |-> {}],
              [num |-> contentNum, type |-> "stream", ref |-> 0,
               numbers |-> SheetNumbers(sheet, startNumber, totalNumbers)]>>
            \o GeneratePages(sheet + 1, sheetsNeeded, objNum + 2,
                             startNumber, totalNumbers)

generateSeriesPdf(startNumber, endNumber) ==
  LET totalNumbers == endNumber - startNumber + 1
      sheetsNeeded == ceil(totalNumbers, 4)
      catalogNum == 1
      pagesNum == catalogNum + 1
      objNumAtRefs == pagesNum + 1          \* objNum when pageRefs is filled
      pageRefs == [i \in 1..sheetsNeeded |-> objNumAtRefs + (i - 1) * 2]
      fontNum == objNumAtRefs               \* const fontNum = objNum++
      objNum == fontNum + 1
  IN [objects |->
        <<[num |-> catalogNum, type |-> "Catalog", ref |-> 2, numbers |-> {}],
          [num |-> pagesNum, type |-> "Pages", ref |-> 0, numbers |-> {}],
          [num |-> fontNum, type |-> "Font", ref |-> 0, numbers |-> {}]>>
        \o GeneratePages(0, sheetsNeeded, objNum, startNumber, totalNumbers),
      Kids |-> pageRefs,
      Count |-> sheetsNeeded]

InitSeries ==
  /\ document_access =
       [g \in Grants |-> [remaining_prints |-> 0, expires_at |-> g,
                          document_id |-> NoDocument]]
  /\ enhanceUrl = FALSE
  /\ Start(0)
  /\ render = <<>>
  /\ normalizer = NoUpload
  /\ BackendIdle
  /\ convert = <<>>
  /\ cmykServer = "running"
  /\ \E templateBase64 \in BOOLEAN, startNumber \in 0..MaxStartNumber :
       \E endNumber \in startNumber..(startNumber + MaxTotalNumbers - 1) :
         series = [NoSeries EXCEPT !.pc = "received",
                                   !.templateBase64 = templateBase64,
                                   !.startNumber = startNumber,
                                   !.endNumber = endNumber]

\* The handler of lines 18-67: without a template it throws and answers 500.
GenerateSeries ==
  /\ series.pc = "received"
  /\ series' =
       IF ~series.templateBase64
         THEN [series EXCEPT !.pc = "done", !.status = 500]
         ELSE [series EXCEPT
                 !.pc = "done", !.status = 200,
                 !.pdf = generateSeriesPdf(series.startNumber, series.endNumber)]
  /\ UNCHANGED <<printVars, normalizer, backendVars, convert, cmykServer>>

NextSeries == GenerateSeries

SpecSeries == InitSeries /\ [][NextSeries]_vars

\* ------------------------------------------------------------------ claims
Delivered(r) ==
  /\ req[r].pc = "done"
  /\ req[r].response.status = 200
  /\ "pdf" \in DOMAIN req[r].response.body

PrintLimitExceeded(r) ==
  req[r].pc = "done" /\ req[r].response = PrintLimitResponse

RequestsFor(g) == {r \in Reqs : req[r].session_token = g}

DeliveredOn(g) == {r \in Reqs : Delivered(r) /\ req[r].access = g}

InvalidSession == ErrorResponse(403, "Invalid or expired session")
ProcessFailed == ErrorResponse(500, "Failed to process print request")
ConvertFailed == ErrorResponse(500, "Failed to convert SVG document for printing")

\* C1: when a grant started with one remaining print and two or more requests
\* for its token have all ended, each Delivered or with 'Print limit exceeded',
\* exactly one of them is Delivered and the ledger holds 0.
C1_ExactlyOneDelivered ==
  \A g \in Grants :
    ( /\ initial_prints[g] = 1
      /\ Cardinality(RequestsFor(g)) >= 2
      /\ \A r \in RequestsFor(g) : Delivered(r) \/ PrintLimitExceeded(r) )
    => /\ Cardinality(DeliveredOn(g)) = 1
       /\ document_access[g].remaining_prints = 0

\* C2: the requests Delivered on a grant never outnumber the prints the grant
\* started with.
C2_DeliveredAtMostInitial ==
  \A g \in Grants : Cardinality(DeliveredOn(g)) <= initial_prints[g]

\* C3: no step raises a grant's stored remaining_prints, and no step lowers it
\* by more than one.
C3_NeverIncreases ==
  [][\A g \in Grants :
       /\ document_access'[g].remaining_prints <= document_access[g].remaining_prints
       /\ document_access'[g].remaining_prints >= document_access[g].remaining_prints - 1
    ]_vars

\* C4: every grant's stored remaining_prints is a non-negative integer.
C4_NonNegative ==
  \A g \in Grants : document_access[g].remaining_prints \in Nat

\* A request's update has brought a grant that started positive down to 0.
C4_Witness ==
  \E r \in Reqs :
    /\ req[r].committed = 0
    /\ initial_prints[req[r].access] > 0
    /\ document_access[req[r].access].remaining_prints = 0

\* C5: a request whose select resolves a grant holding 0 remaining prints ends
\* with 403 'Print limit exceeded' (remaining_prints 0, no document bytes), and
\* that step changes neither the grant table nor the print log.
C5_ZeroIsRejected ==
  [][\A r \in Reqs :
       ( /\ req[r].pc = "select"
         /\ req'[r].pc # "select"
         /\ req'[r].access \in Grants
         /\ document_access[req'[r].access].remaining_prints = 0 )
       => /\ req'[r].pc = "done"
          /\ req'[r].response = PrintLimitResponse
          /\ req'[r].response.status = 403
          /\ req'[r].response.body.remaining_prints = 0
          /\ document_access' = document_access
          /\ print_logs' = print_logs
    ]_vars

\* A request was rejected for the print limit on a grant that holds 0.
C5_Witness ==
  \E r \in Reqs :
    /\ PrintLimitExceeded(r)
    /\ req[r].access \in Grants
    /\ document_access[req[r].access].remaining_prints = 0

\* C6: a request whose select carries a time at or past the grant's expires_at
\* ends with 403 'Invalid or expired session' whatever remaining_prints is, and
\* that step writes neither the grant table nor the print log; expires_at never
\* changes and the clock never goes back, so later requests fare the same.
C6_ExpiredIsRejected ==
  [][/\ now' >= now
     /\ \A g \in Grants : document_access'[g].expires_at = document_access[g].expires_at
     /\ \A r \in Reqs :
          ( /\ req[r].pc = "select"
            /\ req'[r].pc # "select"
            /\ req[r].session_token \in Grants
            /\ document_access[req[r].session_token].expires_at <= req[r].queryTime )
          => /\ req'[r].pc = "done"
             /\ req'[r].response = InvalidSession
             /\ req'[r].committed = -1
             /\ document_access' = document_access
             /\ print_logs' = print_logs
    ]_vars

\* A request on an expired grant that still holds prints was rejected.
C6_Witness ==
  \E r \in Reqs :
    /\ req[r].pc = "done"
    /\ req[r].response = InvalidSession
    /\ req[r].session_token \in Grants
    /\ document_access[req[r].session_token].expires_at <= req[r].queryTime
    /\ document_access[req[r].session_token].remaining_prints > 0

\* C7: a request is past the update stage or Delivered only if its own update
\* was written; a request whose update reported an error ended with 500 'Failed
\* to process print request', carries no document bytes and left no log row.
C7_NoDeliveryWithoutDecrement ==
  \A r \in Reqs :
    /\ (req[r].pc \in {"log", "convert", "enhance", "watermark"} \/ Delivered(r))
         => req[r].committed >= 0
    /\ (req[r].pc = "done" /\ req[r].response = ProcessFailed)
         => /\ req[r].committed = -1
            /\ ~Delivered(r)
            /\ \A row \in print_logs : row.id # r
    /\ (\E row \in print_logs : row.id = r) => req[r].committed >= 0

\* A request ended with the update error while another was Delivered.
C7_Witness ==
  \E r, q \in Reqs :
    /\ req[r].pc = "done" /\ req[r].response = ProcessFailed
    /\ Delivered(q)

\* C8: the X-Remaining-Prints header of a Delivered request is the decimal
\* string of the value the grant held right after that request's update.
C8_HeaderIsPostDecrement ==
  \A r \in Reqs :
    Delivered(r) =>
      req[r].response.headers["X-Remaining-Prints"] = ToString(req[r].committed)

\* Two requests were Delivered on the same grant.
C8_Witness ==
  \E r, q \in Reqs :
    /\ r # q
    /\ Delivered(r) /\ Delivered(q)
    /\ req[r].access = req[q].access

\* C9: once the normalizer has answered with a non-success status the request
\* is ended with the 500 conversion error and no document bytes, its decrement
\* had been written, and the step that ends it leaves the grant table alone.
C9_NormalizerFailureAborts ==
  [][\A r \in Reqs :
       req'[r].svgResponse = "failed"
       => /\ req'[r].pc = "done"
          /\ req'[r].response = ConvertFailed
          /\ "pdf" \notin DOMAIN req'[r].response.body
          /\ req'[r].committed >= 0
          /\ req[r].pc = "convert" => document_access' = document_access
    ]_vars

\* A request on an SVG document ended with the conversion error after its
\* decrement, and the grant still holds the decremented value.
C9_Witness ==
  \E r \in Reqs :
    /\ req[r].pc = "done"
    /\ req[r].svgResponse = "failed"
    /\ req[r].response = ConvertFailed
    /\ document_access[req[r].access].remaining_prints = req[r].committed
    /\ req[r].committed < initial_prints[req[r].access]

\* The bytes the watermark stage receives when PDF_ENHANCE_URL is not set.
BytesWithoutEnhancement(d) ==
  IF isSvg(d) THEN ConvertedBytes(d) ELSE FileBytes(d)

\* C10: an enhancement call that throws, answers a non-success status or
\* answers an empty body leads to the watermark stage, with the buffer the
\* request would hold there without enhancement.
C10_EnhancementFailureIsInert ==
  [][\A r \in Reqs :
       (req[r].pc = "enhance" /\ req'[r].enhance \in {"threw", "status", "empty"})
       => /\ req'[r].pc = "watermark"
          /\ req'[r].originalPdfBuffer = req[r].originalPdfBuffer
          /\ req'[r].originalPdfBuffer = BytesWithoutEnhancement(req[r].document)
    ]_vars

\* Requests stand at the watermark stage after each kind of enhancement failure.
C10_Witness ==
  \E r \in Reqs :
    /\ req[r].pc = "watermark"
    /\ req[r].enhance = "empty"
    /\ req[r].originalPdfBuffer = BytesWithoutEnhancement(req[r].document)
\* C11: the step in which the print_logs insert settles takes the request to
\* its next stage with no response yet, whether or not a row was inserted, and
\* leaves the grant table, so the decrement, as it was; the response sent later
\* is built from the request's own values only.
C11_LogOutcomeIsInert ==
  [][\A r \in Reqs :
       (req[r].pc = "log" /\ req'[r] # req[r])
       => /\ req'[r].pc \in {"convert", "enhance", "watermark"}
          /\ req'[r].response = NoResponse
          /\ req'[r] = [req[r] EXCEPT !.pc = req'[r].pc,
                                      !.originalPdfBuffer = req'[r].originalPdfBuffer]
          /\ req'[r].originalPdfBuffer \in {NoBytes, req[r].fileData}
          /\ document_access' = document_access
    ]_vars

\* A request was Delivered although its print_logs insert failed, while another
\* was Delivered with its row inserted.
C11_Witness ==
  \E r, q \in Reqs :
    /\ Delivered(r) /\ Delivered(q)
    /\ \A row \in print_logs : row.id # r
    /\ \E row \in print_logs : row.id = q

InternalFailure == ErrorResponse(500, "Internal server error")

\* The responses the handler can end with, other than a delivery.
TerminalErrors ==
  {PreflightResponse, ErrorResponse(400, "Session token required"), InvalidSession,
   PrintLimitResponse, ErrorResponse(404, "Document not found"),
   ErrorResponse(500, "Failed to retrieve document"), ProcessFailed, ConvertFailed,
   InternalFailure}

EndedOnExpiredGrant(q) ==
  /\ req[q].pc = "done"
  /\ req[q].session_token \in Grants
  /\ document_access[req[q].session_token].expires_at <= req[q].queryTime

\* C13: a request with a token no row holds and a request with the token of an
\* expired grant end with the same status, headers and body.
C13_UnknownAndExpiredAlike ==
  \A r, q \in Reqs :
    (req[r].pc = "done" /\ req[r].session_token = UnknownToken /\ EndedOnExpiredGrant(q))
    => /\ req[r].response = req[q].response
       /\ req[r].response.status = 403
       /\ req[r].response.body = [error |-> "Invalid or expired session"]

\* Both requests have ended, the expired grant still holding prints.
C13_Witness ==
  \E r, q \in Reqs :
    /\ req[r].pc = "done" /\ req[r].session_token = UnknownToken
    /\ EndedOnExpiredGrant(q)
    /\ document_access[req[q].session_token].remaining_prints > 0
    /\ document_access[req[q].session_token].document_id # NoDocument

\* C14: a request other than OPTIONS whose body has no session token ends at
\* once with 400 'Session token required': it never starts the select, the
\* download, the update or the log insert, and both tables stay as they were.
TokenRequired == ErrorResponse(400, "Session token required")

C14_MissingTokenIs400 ==
  [][\A r \in Reqs :
       /\ (/\ req[r].pc = "idle"
           /\ req'[r].method = "POST"
           /\ ~req'[r].threw
           /\ req'[r].session_token = NoToken)
            => /\ req'[r] = [IdleReq EXCEPT !.pc = "done", !.method = "POST",
                                            !.response = TokenRequired]
               /\ document_access' = document_access
               /\ print_logs' = print_logs
       /\ (req[r].pc = "done" /\ req[r].response = TokenRequired)
            => /\ req'[r] = req[r]
               /\ \A row \in print_logs' : row.id # r]_vars

\* A request was answered 400 while a grant with prints left was unexpired.
C14_Witness ==
  \E r \in Reqs, g \in Grants :
    /\ req[r].pc = "done"
    /\ req[r].method = "POST"
    /\ req[r].response = TokenRequired
    /\ document_access[g].remaining_prints > 0
    /\ document_access[g].expires_at > now
    /\ document_access[g].document_id # NoDocument

\* C15 as stated: whenever the select resolves an unexpired grant whose
\* document is missing, the answer is 404 'Document not found' and the grant's
\* remaining_prints and print_logs are unchanged.
DocumentNotFound == ErrorResponse(404, "Document not found")

C15_MissingDocumentIs404 ==
  [][\A r \in Reqs :
       (/\ req[r].pc = "select"
        /\ req'[r].access \in Grants
        /\ document_access[req'[r].access].document_id = NoDocument)
         => /\ req'[r].pc = "done"
            /\ req'[r].response = DocumentNotFound
            /\ document_access' = document_access
            /\ print_logs' = print_logs]_vars

\* C15 amended: the 404 is the answer when the resolved grant also has prints
\* left; the print limit check of line 62 comes first.  The request then ends
\* for good, with no update and no log row.
C15_MissingDocumentWithPrintsLeftIs404 ==
  [][\A r \in Reqs :
       /\ (/\ req[r].pc = "select"
           /\ req'[r].access \in Grants
           /\ document_access[req'[r].access].document_id = NoDocument
           /\ document_access[req'[r].access].remaining_prints > 0)
            => /\ req'[r].pc = "done"
               /\ req'[r].response = DocumentNotFound
               /\ req'[r].committed = -1
               /\ document_access' = document_access
               /\ print_logs' = print_logs
       /\ (req[r].pc = "done" /\ req[r].response = DocumentNotFound)
            => /\ req'[r] = req[r]
               /\ \A row \in print_logs' : row.id # r]_vars

\* A request ended 404 on a grant that still holds all its prints.
C15_Witness ==
  \E r \in Reqs :
    /\ req[r].pc = "done"
    /\ req[r].response = DocumentNotFound
    /\ req[r].access \in Grants
    /\ document_access[req[r].access].document_id = NoDocument
    /\ document_access[req[r].access].remaining_prints > 0
    /\ document_access[req[r].access].remaining_prints = initial_prints[req[r].access]
    /\ \A row \in print_logs : row.id # r

\* C16: in every delivered document each page carries a footer, and every
\* footer names the session token of the request body and the same remaining
\* count as the X-Remaining-Prints header of the response.
Footers(page) == {j \in DOMAIN page.texts : page.texts[j].kind = "footer"}

C16_FooterMatchesTokenAndHeader ==
  \A r \in Reqs :
    Delivered(r) =>
      LET pages == req[r].response.body.pdf.pages IN
      \A i \in DOMAIN pages :
        /\ Footers(pages[i]) # {}
        /\ \A j \in Footers(pages[i]) :
             /\ pages[i].texts[j].token = req[r].session_token
             /\ pages[i].texts[j].remaining =
                  req[r].response.headers["X-Remaining-Prints"]

\* A two-page document was delivered with prints still left on the grant.
C16_Witness ==
  \E r \in Reqs :
    /\ Delivered(r)
    /\ Len(req[r].response.body.pdf.pages) = 2
    /\ req[r].session_token \in Grants
    /\ req[r].response.headers["X-Remaining-Prints"] = "1"

\* C17: the delivered document has the pages of the document the watermark
\* stage loaded, in the same order and of the same size, each with exactly one
\* diagonal mark and one footer added.
Diagonals(page) == {j \in DOMAIN page.texts : page.texts[j].kind = "diagonal"}

C17_EveryPageStampedOnce ==
  \A r \in Reqs :
    Delivered(r) =>
      LET out == req[r].response.body.pdf
          input == getPages([kind |-> out.of, doc |-> out.doc])
      IN
      /\ Len(out.pages) = Len(input)
      /\ \A i \in DOMAIN out.pages :
           /\ out.pages[i].size = input[i].size
           /\ Len(out.pages[i].texts) = Len(input[i].texts) + 2
           /\ Cardinality(Diagonals(out.pages[i])) = 1
           /\ Cardinality(Footers(out.pages[i])) = 1

\* Both a one-page and a two-page document were delivered.
C17_Witness ==
  \E r, q \in Reqs :
    /\ Delivered(r)
    /\ Delivered(q)
    /\ Len(req[r].response.body.pdf.pages) = 1
    /\ Len(req[q].response.body.pdf.pages) = 2
    /\ req[q].response.body.pdf.pages[1].size # req[q].response.body.pdf.pages[2].size

\* C18: the page the service adds has the size the source's viewBox declares
\* when the source has a viewBox whose width and height are positive finite
\* numbers, and is A4 in every other case.  What a source declares is read as
\* SVG reads it: the attribute value may stand in double or single quotes,
\* and its four numbers are separated by white space and/or one comma.
RECURSIVE SpaceCommas(_)
SpaceCommas(s) ==
  IF s = <<>> THEN <<>>
  ELSE (IF Head(s) = "," THEN <<" ", ",", " ">> ELSE <<Head(s)>>)
         \o SpaceCommas(Tail(s))

NotComma(item) == item # <<",">>

DeclaredViewBox(svgText) ==
  LET double == RegExpMatch(svgText, "\"")
      value == IF double # <<>> THEN double ELSE RegExpMatch(svgText, "'")
      items == split(trim(SpaceCommas(value)))
      numbers == SelectSeq(items, NotComma)
      parts == [i \in DOMAIN numbers |-> Number(numbers[i])]
  IN
  IF /\ value # <<>>
     /\ NotComma(items[1])
     /\ NotComma(items[Len(items)])
     /\ \A i \in 1..(Len(items) - 1) : NotComma(items[i]) \/ NotComma(items[i + 1])
     /\ Len(parts) = 4
     /\ \A i \in DOMAIN parts : numbers[i] # <<>> /\ parts[i].finite
  THEN <<parts[3].value, parts[4].value>>
  ELSE <<>>

C18_PageSizeFromViewBoxElseA4 ==
  (normalizer.pc = "done" /\ normalizer.file) =>
    LET declared == DeclaredViewBox(normalizer.svgText) IN
    IF declared # <<>> /\ declared[1] > 0 /\ declared[2] > 0
    THEN Len(normalizer.pageSize) = 2 /\ normalizer.pageSize = declared
    ELSE Len(normalizer.pageSize) = 1 /\ normalizer.pageSize[1] = "A4"

\* C19: a request whose awaited call never returns still ends: the handler
\* has a step left to take (its timeout), so the request is never stuck.
C19_HungCallStillEnds ==
  \A r \in Reqs :
    req[r].pc = "hung" => ENABLED (NextHang /\ req'[r] # req[r])

\* C20: an OPTIONS request ends at once with the CORS headers and a null
\* body; its body is not read (no token), no grant is looked up, nothing is
\* fetched, and document_access and print_logs stay as they were.
C20_PreflightIsInert ==
  [][\A r \in Reqs :
       /\ (req[r].pc = "idle" /\ req'[r].method = "OPTIONS")
            => /\ req'[r] = [IdleReq EXCEPT !.pc = "done", !.method = "OPTIONS",
                                            !.response = PreflightResponse]
               /\ req'[r].response.headers = corsHeaders
               /\ req'[r].response.body = [null |-> TRUE]
               /\ req'[r].session_token = NoToken
               /\ req'[r].access \notin Grants
               /\ document_access' = document_access
               /\ print_logs' = print_logs
       /\ req[r].method = "OPTIONS"
            => /\ req'[r] = req[r]
               /\ \A row \in print_logs' : row.id # r]_vars

\* A preflight was answered while a grant with prints left was unexpired.
C20_Witness ==
  \E r \in Reqs, g \in Grants :
    /\ req[r].pc = "done"
    /\ req[r].method = "OPTIONS"
    /\ req[r].response = PreflightResponse
    /\ document_access[g].remaining_prints > 0
    /\ document_access[g].expires_at > now
    /\ document_access[g].document_id # NoDocument

\* C21: the stages of a request run in the order validate, decrement, fetch,
\* normalize, enhance, watermark, log, deliver: the download is in flight
\* only once the request's decrement is committed, and the request's log row
\* exists only once normalizing, enhancing and watermarking are behind it.
C21_StagesInSpecOrder ==
  \A r \in Reqs :
    /\ req[r].pc = "download" => req[r].committed >= 0
    /\ (\E row \in print_logs : row.id = r)
         => req[r].pc \notin {"convert", "enhance", "watermark"}

\* C22: the print_logs insert of a request is started in the very step that
\* commits its decrement, and in no other step, so once per committed
\* decrement and never for a request without one; only the request whose
\* insert is in flight adds a row, its own, and no row is ever changed or
\* removed.
C22_OneInsertPerCommittedDecrement ==
  [][\A r \in Reqs :
       /\ (req[r].pc # "log" /\ req'[r].pc = "log")
            <=> (req[r].committed = -1 /\ req'[r].committed >= 0)
       /\ req[r].committed >= 0 => req'[r].committed = req[r].committed
       /\ print_logs \subseteq print_logs'
       /\ (\E row \in print_logs' \ print_logs : row.id = r)
            => /\ req[r].pc = "log"
               /\ req'[r].pc # "log"
               /\ Cardinality(print_logs' \ print_logs) = 1
       /\ req[r].committed = -1 => \A row \in print_logs : row.id # r]_vars

\* One request committed its decrement, logged its row and then failed with
\* a 500; another was rejected before any decrement and has no row.
C22_Witness ==
  \E r, q \in Reqs :
    /\ req[r].pc = "done"
    /\ req[r].committed >= 0
    /\ req[r].response.status = 500
    /\ \E row \in print_logs : row.id = r
    /\ req[q].pc = "done"
    /\ req[q].committed = -1
    /\ req[q].access \in Grants
    /\ \A row \in print_logs : row.id # q

\* C23: the buffer a request brings to the watermark stage is the body of the
\* enhancement response exactly when PDF_ENHANCE_URL is set, the call answered
\* ok and the body was not empty; otherwise it is the normalizer's output (the
\* file itself for a PDF), and without PDF_ENHANCE_URL no call is made.
C23_EnhancedBytesIffConfiguredOkNonEmpty ==
  \A r \in Reqs :
    /\ req[r].pc = "enhance" => enhanceUrl
    /\ req[r].pc = "watermark" =>
         /\ ~enhanceUrl => req[r].enhance = "none"
         /\ IF enhanceUrl /\ req[r].enhance = "replaced"
            THEN req[r].originalPdfBuffer = EnhancedBytes(req[r].document)
            ELSE req[r].originalPdfBuffer = BytesWithoutEnhancement(req[r].document)

\* At the watermark stage stand a request whose buffer was replaced and one
\* of an SVG document whose call answered ok with an empty body.
C23_Witness ==
  \E r, q \in Reqs :
    /\ req[r].pc = "watermark"
    /\ req[r].enhance = "replaced"
    /\ req[r].originalPdfBuffer = EnhancedBytes(req[r].document)
    /\ req[q].pc = "watermark"
    /\ req[q].enhance = "empty"
    /\ req[q].originalPdfBuffer = ConvertedBytes(req[q].document)

\* C24: which way a request goes after the log insert depends on its
\* document's storage_path alone: to the normalizer call exactly when the
\* path ends in ".svg" in any letter case; otherwise straight on, with the
\* downloaded bytes as the buffer, and no normalizer call is ever made.
LocatorEndsInSvg(d) ==
  LET path == storage_path(d)
      n == Len(path)
  IN /\ n >= 4
     /\ path[n - 3] = "."
     /\ path[n - 2] \in {"s", "S"}
     /\ path[n - 1] \in {"v", "V"}
     /\ path[n] \in {"g", "G"}

C24_FormatFromLocatorOnly ==
  [][\A r \in Reqs :
       /\ (req[r].pc = "log" /\ req'[r].pc # "log")
            => IF LocatorEndsInSvg(req[r].document)
               THEN req'[r].pc = "convert"
               ELSE /\ req'[r].pc = (IF enhanceUrl THEN "enhance" ELSE "watermark")
                    /\ req'[r].originalPdfBuffer = req[r].fileData
                    /\ req'[r].originalPdfBuffer = FileBytes(req[r].document)
       /\ (req'[r].pc = "convert" \/ req'[r].svgResponse # "none")
            => LocatorEndsInSvg(document_access[req'[r].access].document_id)
    ]_vars

\* A request for the SVG document waits for the normalizer while one for the
\* PDF document has passed on with the downloaded bytes.
C24_Witness ==
  \E r, q \in Reqs :
    /\ req[r].pc = "convert"
    /\ LocatorEndsInSvg(req[r].document)
    /\ req[q].pc \in {"enhance", "watermark"}
    /\ ~LocatorEndsInSvg(req[q].document)
    /\ req[q].originalPdfBuffer = FileBytes(req[q].document)

\* C25: a step of a request changes no other request and no row but that of
\* the grant it resolved; what it reads from the table is that row.  So a
\* grant named by one request only holds its initial count, less one once
\* that request's update is written, whatever the other requests do.
OnlyRequestFor(r) ==
  /\ req[r].session_token \in Grants
  /\ \A q \in Reqs \ {r} : req[q].session_token # req[r].session_token

C25_GrantsAreIndependent ==
  [][\A r \in Reqs :
       /\ req'[r] # req[r]
            => /\ \A q \in Reqs \ {r} : req'[q] = req[q]
               /\ \A g \in Grants :
                    document_access'[g] # document_access[g]
                      => /\ g = req[r].access
                         /\ g = req[r].session_token
               /\ (req[r].pc = "select" /\ req'[r].access \in Grants)
                    => /\ req'[r].access = req[r].session_token
                       /\ req'[r].pc = "download"
                            => /\ req'[r].remaining_prints =
                                    document_access[req'[r].access].remaining_prints
                               /\ req'[r].document =
                                    document_access[req'[r].access].document_id
       /\ OnlyRequestFor(r)
            => document_access[req[r].session_token].remaining_prints =
                 initial_prints[req[r].session_token]
                   - (IF req[r].committed >= 0 THEN 1 ELSE 0)
    ]_vars

\* Two requests on two different grants were both delivered.
C25_Witness ==
  \E r, q \in Reqs :
    /\ Delivered(r)
    /\ Delivered(q)
    /\ req[r].access # req[q].access
    /\ OnlyRequestFor(r)
    /\ OnlyRequestFor(q)
    /\ initial_prints[req[r].access] # initial_prints[req[q].access]

\* C26: once the access record holds a session token, no assign-by-email
\* request replaces it, and a token sent in a 200 response stays the
\* record's token.
C26_IssuedTokenIsKept ==
  [][/\ DocumentAccess.sessionToken # NoSessionToken
          => DocumentAccess'.sessionToken = DocumentAccess.sessionToken
     /\ \A a \in Assigns :
          (assign'[a].pc = "done" /\ assign'[a].response.status = 200)
            => DocumentAccess'.sessionToken = assign'[a].response.body.sessionToken
    ]_vars

\* C27: a step of a secure-render request changes neither table; a request
\* that resolved an unexpired grant with a document goes on to the download,
\* whatever the grant's remaining_prints, and when the download succeeds the
\* answer is 200 with the bytes of the grant's stored file.
Rendered(k) ==
  /\ render[k].pc = "done"
  /\ render[k].response.status = 200
  /\ "pdf" \in DOMAIN render[k].response.body

C27_RenderIsReadOnly ==
  [][\A k \in Renders :
       /\ render'[k] # render[k]
            => /\ document_access' = document_access
               /\ print_logs' = print_logs
               /\ req' = req
       /\ (/\ render[k].pc = "select"
           /\ render'[k].access \in Grants
           /\ document_access[render'[k].access].document_id # NoDocument)
            => /\ render'[k].pc = "download"
               /\ render'[k].document =
                    document_access[render'[k].access].document_id
       /\ (render[k].pc = "download" /\ render'[k].pc = "done")
            => \/ render'[k].response.status = 500
               \/ /\ render'[k].response.status = 200
                  /\ render'[k].response.body =
                       [pdf |-> FileBytes(
                                  document_access[render[k].access].document_id)]
       /\ (render'[k].pc = "done" /\ render'[k].response.status = 200
             /\ render[k].pc # "idle")
            => render[k].pc \in {"download", "done"}
    ]_vars

\* The file was rendered for a grant that never had a print left, while the
\* secure-print request on that grant was refused.
C27_Witness ==
  \E k \in Renders, r \in Reqs :
    /\ Rendered(k)
    /\ initial_prints[render[k].access] = 0
    /\ document_access[render[k].access].remaining_prints = 0
    /\ PrintLimitExceeded(r)
    /\ req[r].access = render[k].access

\* C28 as stated: when a block-ip request answers 200, one BlockedIp record
\* holds the session's ip and no session has that ip; and when its lookup
\* finds no session with the id it names, the database not failing, it
\* answers 404 and leaves Session and BlockedIp as they were.
BlockSucceeds(b) ==
  block[b].pc # "done" /\ block'[b].pc = "done" /\ block'[b].status = 200

LookupFindsNone(b) ==
  /\ block[b].pc = "findById"
  /\ block'[b].pc # "findById"
  /\ ~block'[b].dbError
  /\ \A session \in Session : session.id # block[b].sessionId

C28_BlockedOnceAndUnknownIs404 ==
  [][\A b \in Blocks :
       /\ BlockSucceeds(b)
            => /\ BlockedIp'[block[b].ip] = 1
               /\ \A session \in Session' : session.ip # block[b].ip
       /\ LookupFindsNone(b)
            => /\ block'[b].pc = "done"
               /\ block'[b].status = 404
               /\ Session' = Session
               /\ BlockedIp' = BlockedIp
    ]_vars

\* C29 as stated: once a listener of a request's Ghostscript child has run,
\* whichever of 'error' and 'close' fired and in whatever order, one response
\* has been sent and unlinkSync was called once on the uploaded input's path.
C29_OneResponseOneUnlink ==
  \A k \in DOMAIN convert :
    (convert[k].errorFired \/ convert[k].closeFired)
      => /\ convert[k].responses = 1
         /\ convert[k].unlinkInput = 1

\* C30 as stated: the Kids array of the PDF generateSeriesPdf builds has one
\* entry per sheet, ceil of the number count over 4, and every number in it
\* is the number of an object of type Page written to the file.
C30_KidsArePages ==
  (series.pc = "done" /\ series.status = 200)
    => /\ Len(series.pdf.Kids)
            = ceil(series.endNumber - series.startNumber + 1, 4)
       /\ \A i \in DOMAIN series.pdf.Kids :
            \E o \in DOMAIN series.pdf.objects :
              /\ series.pdf.objects[o].num = series.pdf.Kids[i]
              /\ series.pdf.objects[o].type = "Page"

====
